---- MODULE Spec2Model ----
(***************************************************************************)
(* Model of the Lox scanner (src/src/scanner.rs) and of the driver that    *)
(* feeds it (src/src/main.rs).                                             *)
(*                                                                         *)
(* The source buffer is a Vec<u8>: a sequence of byte values.  Rust        *)
(* offsets are 0-based; Slice(src, a, b) is the Rust slice src[a..b].      *)
(* One action is one call of Scanner::scan_token (one iteration of the     *)
(* main loop); the inner loops of comment, string, number and identifier   *)
(* scanning are RECURSIVE operators over a record of the Scanner's fields. *)
(***************************************************************************)
EXTENDS Integers, Sequences, FiniteSets, TLC

VARIABLES source, tokens, spans, err, start, current, line, col, pc, result, output

vars == <<source, tokens, spans, err, start, current, line, col, pc, result, output>>

(***************************************************************************)
(* Bounds of the model: the longest buffer handed to a scan, per input     *)
(* alphabet.                                                               *)
(***************************************************************************)
MaxLen == 3
MaxStrLen == 5
MaxIdLen == 4
MaxBlankLen == 5
MaxNumLen == 5

(***************************************************************************)
(* Byte values of the characters the scanner dispatches on.                *)
(***************************************************************************)
Byte ==
  [ lparen |-> 40, rparen |-> 41, lbrace |-> 123, rbrace |-> 125,
    lbracket |-> 91, rbracket |-> 93, comma |-> 44, dot |-> 46,
    minus |-> 45, plus |-> 43, semicolon |-> 59, star |-> 42,
    bang |-> 33, equal |-> 61, less |-> 60, greater |-> 62,
    slash |-> 47, space |-> 32, cr |-> 13, tab |-> 9, nl |-> 10,
    quote |-> 34, nul |-> 0,
    at |-> 64, backslash |-> 92, underscore |-> 95,
    d0 |-> 48, d1 |-> 49, d9 |-> 57,
    o |-> 111, r |-> 114, f |-> 102, i |-> 105, upperO |-> 79,
    utf8lead |-> 195, utf8cont |-> 169 ]

\* char::is_ascii_digit
IsAsciiDigit(c) == c \in 48..57

\* char::is_alphabetic of char::from(u8): the alphabetic code points below 256
IsAlphabetic(c) ==
  \/ c \in 65..90
  \/ c \in 97..122
  \/ c \in {170, 181, 186}
  \/ c \in 192..214
  \/ c \in 216..246
  \/ c \in 248..255

\* char::is_numeric of char::from(u8): the numeric code points below 256
IsNumeric(c) == c \in 48..57 \/ c \in {178, 179, 185, 188, 189, 190}

\* char::is_alphanumeric
IsAlphanumeric(c) == IsAlphabetic(c) \/ IsNumeric(c)

\* src[a..b], 0-based and half-open
Slice(src, a, b) == SubSeq(src, a + 1, b)

\* whether src[a..b] is in range (Rust panics otherwise)
SliceOk(src, a, b) == 0 <= a /\ a <= b /\ b <= Len(src)

(***************************************************************************)
(* String::from_utf8: whether a byte sequence is well-formed UTF-8.        *)
(***************************************************************************)
IsCont(b) == b \in 128..191

RECURSIVE Utf8Valid(_)
Utf8Valid(bs) ==
  IF Len(bs) = 0 THEN TRUE
  ELSE LET b == bs[1] n == Len(bs) IN
    IF b < 128 THEN Utf8Valid(Tail(bs))
    ELSE IF b \in 194..223 THEN
      /\ n >= 2 /\ IsCont(bs[2])
      /\ Utf8Valid(SubSeq(bs, 3, n))
    ELSE IF b \in 224..239 THEN
      /\ n >= 3 /\ IsCont(bs[2]) /\ IsCont(bs[3])
      /\ (b = 224 => bs[2] >= 160)
      /\ (b = 237 => bs[2] <= 159)
      /\ Utf8Valid(SubSeq(bs, 4, n))
    ELSE IF b \in 240..244 THEN
      /\ n >= 4 /\ IsCont(bs[2]) /\ IsCont(bs[3]) /\ IsCont(bs[4])
      /\ (b = 240 => bs[2] >= 144)
      /\ (b = 244 => bs[2] <= 143)
      /\ Utf8Valid(SubSeq(bs, 5, n))
    ELSE FALSE

(***************************************************************************)
(* str::parse::<f64> on the lexeme of a number: digits, optionally a '.'   *)
(* and more digits.  The value is mant * 10^(-scale), trailing zeros of    *)
(* the fraction dropped.                                                   *)
(***************************************************************************)
RECURSIVE DigitsValue(_)
DigitsValue(ds) ==
  IF Len(ds) = 0 THEN 0
  ELSE 10 * DigitsValue(SubSeq(ds, 1, Len(ds) - 1)) + (ds[Len(ds)] - 48)

RECURSIVE Normalise(_)
Normalise(v) ==
  IF v.scale > 0 /\ v.mant % 10 = 0
  THEN Normalise([mant |-> v.mant \div 10, scale |-> v.scale - 1])
  ELSE v

ParseF64(bs) ==
  LET dots == {i \in 1..Len(bs) : bs[i] = Byte.dot} IN
  IF dots = {} THEN [mant |-> DigitsValue(bs), scale |-> 0]
  ELSE LET d == CHOOSE i \in dots : TRUE
           digits == SubSeq(bs, 1, d - 1) \o SubSeq(bs, d + 1, Len(bs))
       IN Normalise([mant |-> DigitsValue(digits), scale |-> Len(bs) - d])

(***************************************************************************)
(* Option<Literal>, Option<ScannerError>, Token                            *)
(***************************************************************************)
NoLiteral == [kind |-> "None"]
LitIdentifier(text) == [kind |-> "Identifier", text |-> text]
LitStr(text) == [kind |-> "Str", text |-> text]
LitNumber(val) == [kind |-> "Number", val |-> val]

NoError == [what |-> "None"]
UnexpectedCharacter(c, l, k) ==
  [what |-> "Unexpected character at", ch |-> c, line |-> l, col |-> k]
UnterminatedString(l, k) ==
  [what |-> "Unterminated string.", line |-> l, col |-> k]

Token(tty, lexeme, literal, l, k) ==
  [tty |-> tty, lexeme |-> lexeme, literal |-> literal, line |-> l, col |-> k]

\* the keyword table built by Scanner::new
Keywords ==
  {    [text |-> <<97, 110, 100>>, tty |-> "And"],
       [text |-> <<99, 108, 97, 115, 115>>, tty |-> "Class"],
       [text |-> <<101, 108, 115, 101>>, tty |-> "Else"],
       [text |-> <<102, 97, 108, 115, 101>>, tty |-> "False"],
       [text |-> <<102, 111, 114>>, tty |-> "For"],
       [text |-> <<102, 117, 110>>, tty |-> "Fun"],
       [text |-> <<105, 102>>, tty |-> "If"],
       [text |-> <<110, 105, 108>>, tty |-> "Nil"],
       [text |-> <<111, 114>>, tty |-> "Or"],
       [text |-> <<112, 114, 105, 110, 116>>, tty |-> "Print"],
       [text |-> <<114, 101, 116, 117, 114, 110>>, tty |-> "Return"],
       [text |-> <<115, 117, 112, 101, 114>>, tty |-> "Super"],
       [text |-> <<116, 104, 105, 115>>, tty |-> "This"],
       [text |-> <<116, 114, 117, 101>>, tty |-> "True"],
       [text |-> <<118, 97, 114>>, tty |-> "Var"],
       [text |-> <<119, 104, 105, 108, 101>>, tty |-> "While"],
       [text |-> <<108, 97, 109, 98, 100, 97>>, tty |-> "Lambda"] }

KeywordTexts == {k.text : k \in Keywords}
KeywordTypes == {k.tty : k \in Keywords}

(***************************************************************************)
(* The Scanner as a record of its fields.  spans is a history field: the   *)
(* (start, current) offsets at which each token was pushed.  panicked      *)
(* records that the thread has panicked (index or unwrap failure).         *)
(* output is the last thing the driver wrote: the prompt, the tokens of a  *)
(* line or the error of a line.                                            *)
(***************************************************************************)
\* mutant: the column counter starts at 0
NewScannerColZero ==
  [ source |-> <<>>, tokens |-> <<>>, spans |-> <<>>, current |-> 0, start |-> 0,
    err |-> NoError, line |-> 1, col |-> 0, panicked |-> FALSE ]

NewScanner ==
  [ source |-> <<>>, tokens |-> <<>>, spans |-> <<>>, current |-> 0, start |-> 0,
    err |-> NoError, line |-> 1, col |-> -1, panicked |-> FALSE ]

Self ==
  [ source |-> source, tokens |-> tokens, spans |-> spans, current |-> current,
    start |-> start, err |-> err, line |-> line, col |-> col, panicked |-> FALSE ]

Store(s) ==
  /\ source' = s.source
  /\ tokens' = s.tokens
  /\ spans' = s.spans
  /\ current' = s.current
  /\ start' = s.start
  /\ err' = s.err
  /\ line' = s.line
  /\ col' = s.col

IsAtEnd(s) == s.current >= Len(s.source)

ErrIsSome(s) == s.err # NoError

\* advance: the index self.source[self.current - 1] panics out of range
Advance(s) ==
  IF s.panicked THEN s
  ELSE LET s1 == [s EXCEPT !.current = @ + 1, !.col = @ + 1] IN
       IF s1.current - 1 >= Len(s1.source) THEN [s1 EXCEPT !.panicked = TRUE] ELSE s1

\* the char advance returned: self.source[self.current - 1]
Consumed(s) == s.source[s.current]

Peek(s) == IF IsAtEnd(s) THEN Byte.nul ELSE s.source[s.current + 1]

PeekNext(s) ==
  IF s.current + 1 >= Len(s.source) THEN Byte.nul ELSE s.source[s.current + 2]

MatchesCond(s, c) == ~IsAtEnd(s) /\ s.source[s.current + 1] = c

\* mutant: the second character is recognised but left unconsumed
MatchesNoConsume(s, c) == s

Matches(s, c) ==
  IF MatchesCond(s, c) THEN [s EXCEPT !.current = @ + 1, !.col = @ + 1] ELSE s

\* mutant: the lexeme slice starts one byte late
AddTokenLiteralLate(s, tty, literal) ==
  [s EXCEPT
     !.tokens = Append(@, Token(tty, Slice(s.source, s.start + 1, s.current),
                                literal, s.line, s.col)),
     !.spans = Append(@, [from |-> s.start, to |-> s.current])]

AddTokenLiteral(s, tty, literal) ==
  IF s.panicked THEN s
  ELSE IF ~SliceOk(s.source, s.start, s.current) THEN [s EXCEPT !.panicked = TRUE]
  ELSE [s EXCEPT
          !.tokens = Append(@, Token(tty, Slice(s.source, s.start, s.current),
                                     literal, s.line, s.col)),
          !.spans = Append(@, [from |-> s.start, to |-> s.current])]

AddToken(s, tty) == AddTokenLiteral(s, tty, NoLiteral)


(***************************************************************************)
(* Scanner::scan_token and the sub-scanners it calls.                      *)
(***************************************************************************)

\* mutant: the text of a comment is not skipped
CommentLoopNone(s) == s

\* mutant: the comment swallows the newline that ends it
RECURSIVE CommentLoopPastNewline(_)
CommentLoopPastNewline(s) ==
  IF IsAtEnd(s) THEN s
  ELSE IF Peek(s) = Byte.nl THEN Advance(s)
  ELSE CommentLoopPastNewline(Advance(s))

\* the comment loop of the '/' arm
RECURSIVE CommentLoop(_)
CommentLoop(s) ==
  IF Peek(s) # Byte.nl /\ ~IsAtEnd(s) THEN CommentLoop(Advance(s)) ELSE s

\* while self.peek().is_ascii_digit() { self.advance(); }
RECURSIVE DigitsLoop(_)
DigitsLoop(s) ==
  IF IsAsciiDigit(Peek(s)) THEN DigitsLoop(Advance(s)) ELSE s

\* mutant: a '.' after the digits is taken whatever follows it
NumberFracCondDotOnly(s) == Peek(s) = Byte.dot

\* the condition guarding the fractional part, as written
NumberFracCond(s) == Peek(s) = Byte.dot /\ IsAsciiDigit(Peek(s))

Number(s) ==
  LET s1 == DigitsLoop(s)
      s2 == IF NumberFracCond(s1) THEN DigitsLoop(Advance(s1)) ELSE s1
  IN AddTokenLiteral(s2, "Number",
                     LitNumber(ParseF64(Slice(s2.source, s2.start, s2.current))))

\* while self.peek().is_alphanumeric() { self.advance(); }
RECURSIVE AlnumLoop(_)
AlnumLoop(s) ==
  IF IsAlphanumeric(Peek(s)) THEN AlnumLoop(Advance(s)) ELSE s

\* mutant: a keyword is recognised as a prefix of the text
KeywordLookupPrefix(text) ==
  IF \E k \in Keywords : Len(k.text) <= Len(text) /\ SubSeq(text, 1, Len(k.text)) = k.text
  THEN (CHOOSE k \in Keywords :
          Len(k.text) <= Len(text) /\ SubSeq(text, 1, Len(k.text)) = k.text).tty
  ELSE "Identifier"

\* self.keywords.get(&literal_val), None mapped to TokenType::Identifier
KeywordLookup(text) ==
  IF \E k \in Keywords : k.text = text
  THEN (CHOOSE k \in Keywords : k.text = text).tty
  ELSE "Identifier"

Identifier(s) ==
  LET s1 == AlnumLoop(s)
      text == Slice(s1.source, s1.start, s1.current)
  IN IF ~Utf8Valid(text) THEN [s1 EXCEPT !.panicked = TRUE]
     ELSE LET tty == KeywordLookup(text) IN
          IF tty = "Identifier"
          THEN AddTokenLiteral(s1, "Identifier", LitIdentifier(text))
          ELSE AddToken(s1, tty)

\* mutant: newlines inside a string do not bump the line counter
RECURSIVE StringLoopNoLine(_)
StringLoopNoLine(s) ==
  IF Peek(s) # Byte.quote /\ ~IsAtEnd(s) THEN StringLoopNoLine(Advance(s)) ELSE s

\* the loop of string(): newlines inside the string bump the line counter
RECURSIVE StringLoop(_)
StringLoop(s) ==
  IF Peek(s) # Byte.quote /\ ~IsAtEnd(s)
  THEN StringLoop(Advance(IF Peek(s) = Byte.nl THEN [s EXCEPT !.line = @ + 1] ELSE s))
  ELSE s

\* mutant: the literal keeps the quotes
StringLiteralWithQuotes(s) == Slice(s.source, s.start, s.current)

\* the literal of a string token: the bytes between the quotes
StringLiteral(s) == Slice(s.source, s.start + 1, s.current - 1)

String(s) ==
  LET s1 == StringLoop(s)
      s2 == IF IsAtEnd(s1)
            THEN [s1 EXCEPT !.err = UnterminatedString(s1.line, s1.col)]
            ELSE s1
      s3 == Advance(s2)
  IN IF s3.panicked THEN s3
     ELSE IF ~SliceOk(s3.source, s3.start + 1, s3.current - 1)
            \/ ~Utf8Valid(StringLiteral(s3))
     THEN [s3 EXCEPT !.panicked = TRUE]
     ELSE AddTokenLiteral(s3, "String", LitStr(StringLiteral(s3)))

\* the arms '!' '=' '<' '>'
Operator(s, two, one) ==
  LET s1 == Matches(s, Byte.equal) IN
  AddToken(s1, IF MatchesCond(s, Byte.equal) THEN two ELSE one)

ScanToken(s) ==
  LET s1 == Advance(s)
      c == Consumed(s1)
  IN IF s1.panicked THEN s1 ELSE
     CASE c = Byte.lparen -> AddToken(s1, "LeftParen")
       [] c = Byte.rparen -> AddToken(s1, "RightParen")
       [] c = Byte.lbrace -> AddToken(s1, "LeftBrace")
       [] c = Byte.rbrace -> AddToken(s1, "RightBrace")
       [] c = Byte.lbracket -> AddToken(s1, "LeftBracket")
       [] c = Byte.rbracket -> AddToken(s1, "RightBracket")
       [] c = Byte.comma -> AddToken(s1, "Comma")
       [] c = Byte.dot -> AddToken(s1, "Dot")
       [] c = Byte.minus -> AddToken(s1, "Minus")
       [] c = Byte.plus -> AddToken(s1, "Plus")
       [] c = Byte.semicolon -> AddToken(s1, "Semicolon")
       [] c = Byte.star -> AddToken(s1, "Star")
       [] c = Byte.bang -> Operator(s1, "BangEqual", "Bang")
       [] c = Byte.equal -> Operator(s1, "EqualEqual", "Equal")
       [] c = Byte.less -> Operator(s1, "LessEqual", "Less")
       [] c = Byte.greater -> Operator(s1, "GreaterEqual", "Greater")
       [] c = Byte.slash ->
            IF MatchesCond(s1, Byte.slash)
            THEN CommentLoop(Matches(s1, Byte.slash))
            ELSE AddToken(s1, "Slash")
       [] c \in {Byte.space, Byte.cr, Byte.tab} -> s1
       [] c = Byte.nl -> [s1 EXCEPT !.line = @ + 1, !.col = 0]
       [] c = Byte.quote -> String(s1)
       [] OTHER ->
            IF IsAsciiDigit(c) THEN Number(s1)
            ELSE IF IsAlphabetic(c) THEN Identifier(s1)
            ELSE [s1 EXCEPT !.err = UnexpectedCharacter(c, s1.line, s1.col)]

(***************************************************************************)
(* Scanner::scan_tokens                                                    *)
(***************************************************************************)

\* mutant: the loop does not look at the recorded error
LoopCondIgnoresErr(s) == ~IsAtEnd(s)

\* mutant: the loop does not stop at the end of the buffer
LoopCondNoEnd(s) == ~ErrIsSome(s)

\* while !self.err.is_some() && !self.is_at_end()
LoopCond(s) == ~ErrIsSome(s) /\ ~IsAtEnd(s)

\* mutant: the token start is not moved to the cursor
BeginTokenStale(s) == s

\* self.start = self.current
BeginToken(s) == [s EXCEPT !.start = s.current]

\* mutant: the Eof token is pushed whether or not an error is recorded
PushEofAlways(s) ==
  [s EXCEPT !.tokens = Append(@, Token("Eof", <<>>, NoLiteral, s.line, s.col)),
            !.spans = Append(@, [from |-> s.current, to |-> s.current])]

\* the match after the loop: the Eof token is pushed when no error is recorded
PushEof(s) ==
  IF ErrIsSome(s) THEN s
  ELSE [s EXCEPT !.tokens = Append(@, Token("Eof", <<>>, NoLiteral, s.line, s.col)),
                 !.spans = Append(@, [from |-> s.current, to |-> s.current])]

(***************************************************************************)
(* The driver's Result<Vec<Token>, ScannerError>                           *)
(***************************************************************************)
NoResult == [kind |-> "None"]
Ok(ts) == [kind |-> "Ok", tokens |-> ts]
Err(e) == [kind |-> "Err", err |-> e]

\* main.rs scan_tokens: match scanner.err
WrapResult(s) == IF ErrIsSome(s) THEN Err(s.err) ELSE Ok(s.tokens)

(***************************************************************************)
(* The buffers the environment may type.  The input is a Rust String, so   *)
(* every buffer is well-formed UTF-8.  AlphabetAll has one byte of every   *)
(* kind the dispatch distinguishes; the other alphabets allow longer       *)
(* buffers of one kind of text.  read_line delivers one line at a time;    *)
(* Scanner is a public type and scan_tokens takes any String, so the       *)
(* buffers are not restricted to single lines.                             *)
(***************************************************************************)
AlphabetAll ==
  { Byte.lparen, Byte.dot, Byte.bang, Byte.equal, Byte.less, Byte.greater,
    Byte.slash, Byte.space, Byte.nl, Byte.quote, Byte.d1, Byte.o, Byte.r,
    Byte.at, Byte.backslash, Byte.utf8lead, Byte.utf8cont }

SeqsUpTo(A, n) == UNION {[1..k -> A] : k \in 0..n}

Strings(A, n) == {bs \in SeqsUpTo(A, n) : Utf8Valid(bs)}

\* string literals: quotes, newlines, backslashes, and text around them
AlphabetStr == {Byte.quote, Byte.nl, Byte.backslash, Byte.o, Byte.lparen}

\* identifiers and keywords: "or", "for", "if", "of", "Or", "fo1", "o_r"
AlphabetId ==
  {Byte.o, Byte.r, Byte.f, Byte.i, Byte.upperO, Byte.d1, Byte.underscore, Byte.space}

\* blanks and comments
AlphabetBlank == {Byte.space, Byte.tab, Byte.cr, Byte.nl, Byte.slash, Byte.lparen}

\* numbers
AlphabetNum == {Byte.d0, Byte.d1, Byte.d9, Byte.dot, Byte.o}

Inputs ==
  Strings(AlphabetAll, MaxLen) \cup Strings(AlphabetStr, MaxStrLen)
    \cup Strings(AlphabetId, MaxIdLen) \cup Strings(AlphabetBlank, MaxBlankLen)
    \cup Strings(AlphabetNum, MaxNumLen)

(***************************************************************************)
(* Actions                                                                 *)
(***************************************************************************)

\* run_prompt: print!("> ")
Prompt ==
  /\ pc \in {"start", "printed"}
  /\ pc' = "prompt"
  /\ output' = "> "
  /\ UNCHANGED <<source, tokens, spans, err, start, current, line, col, result>>

\* read_line returned a line: run, scan_tokens, Scanner::new, and the
\* assignment of the buffer at the top of Scanner::scan_tokens
ReadLine ==
  /\ pc = "prompt"
  /\ \E input \in Inputs :
       Store([NewScanner EXCEPT !.source = input])
  /\ pc' = "loop"
  /\ UNCHANGED <<result, output>>

\* read_line returned 0: break
ReadEof ==
  /\ pc = "prompt"
  /\ pc' = "exit"
  /\ UNCHANGED <<source, tokens, spans, err, start, current, line, col, result, output>>

\* one iteration of the main loop of Scanner::scan_tokens
ScanStep ==
  /\ pc = "loop"
  /\ LoopCond(Self)
  /\ LET s == ScanToken(BeginToken(Self)) IN
       /\ Store(s)
       /\ pc' = IF s.panicked THEN "panic" ELSE "loop"
  /\ UNCHANGED <<result, output>>

\* the loop of Scanner::scan_tokens is left
ScanTokensEnd ==
  /\ pc = "loop"
  /\ ~LoopCond(Self)
  /\ Store(PushEof(Self))
  /\ pc' = "returned"
  /\ UNCHANGED <<result, output>>

\* main.rs scan_tokens hands the result to run
ScanTokensResult ==
  /\ pc = "returned"
  /\ result' = WrapResult(Self)
  /\ pc' = "done"
  /\ UNCHANGED <<source, tokens, spans, err, start, current, line, col, output>>

\* what run (println! of each token) or run_prompt (eprintln! of the error)
\* writes for a result
Printed(res) == IF res.kind = "Err" THEN "error" ELSE "tokens"

\* run prints the tokens, or run_prompt prints the error; the scanner and
\* the result are dropped (no scanner exists until the next line is read:
\* the fields are held at the values of Scanner::new)
PrintResult ==
  /\ pc = "done"
  /\ Store(NewScanner)
  /\ result' = NoResult
  /\ output' = Printed(result)
  /\ pc' = "printed"

Next ==
  \/ Prompt
  \/ ReadLine
  \/ ReadEof
  \/ ScanStep
  \/ ScanTokensEnd
  \/ ScanTokensResult
  \/ PrintResult

\* before the first prompt: no scanner exists yet
Init ==
  /\ source = NewScanner.source
  /\ tokens = NewScanner.tokens
  /\ spans = NewScanner.spans
  /\ current = NewScanner.current
  /\ start = NewScanner.start
  /\ err = NewScanner.err
  /\ line = NewScanner.line
  /\ col = NewScanner.col
  /\ pc = "start"
  /\ result = NoResult
  /\ output = ""

Spec == Init /\ [][Next]_vars


(***************************************************************************)
(* Vocabulary of the properties                                            *)
(***************************************************************************)

\* a step of the main loop is being taken (one call of scan_token)
Scanning == pc = "loop" /\ pc' \in {"loop", "panic"}

\* the byte the next call of scan_token dispatches on
Dispatched == source[current + 1]

\* the scanner's buffer and tokens are those of the scan in progress or just ended
InScan == pc \in {"loop", "returned", "done"}

\* the number of newline bytes of a buffer
NewlineCount(bs) == Cardinality({j \in 1..Len(bs) : bs[j] = Byte.nl})

\* exactly one token was pushed by the step; NewToken is that token
OnePushed == Len(tokens') = Len(tokens) + 1 /\ SubSeq(tokens', 1, Len(tokens)) = tokens
NewToken == tokens'[Len(tokens')]

TokenTypes(ts) == {ts[i].tty : i \in 1..Len(ts)}

(***************************************************************************)
(* C1: every scan ends by handing the caller exactly one of a complete     *)
(* token sequence or a single ScannerError: the scan never aborts without  *)
(* a result, and a result is Ok(tokens) with no error recorded or Err(e)   *)
(* with the recorded error.                                                *)
(***************************************************************************)
C1_ExactlyOneResult ==
  /\ pc # "panic"
  /\ pc = "done" =>
       \/ result = Ok(tokens) /\ err = NoError
       \/ result = Err(err) /\ err # NoError

(***************************************************************************)
(* C2: when an opening quote was consumed and no closing quote follows,    *)
(* the scan fails with UnterminatedString carrying the line and column of  *)
(* the end of the buffer, and no String token is emitted for it.           *)
(***************************************************************************)
OpenQuoteDispatched ==
  /\ current > start
  /\ source[start + 1] = Byte.quote
  /\ \A j \in (start + 2)..Len(source) : source[j] # Byte.quote

C2_UnterminatedStringError ==
  OpenQuoteDispatched =>
    /\ pc # "panic"
    /\ current = Len(source)
    /\ err = UnterminatedString(1 + NewlineCount(source), col)
    /\ \A i \in 1..Len(tokens) : ~(tokens[i].tty = "String" /\ spans[i].from = start)
    /\ pc = "done" => result = Err(err)

(***************************************************************************)
(* C3: a '.' that follows the integer digits of a number and is itself     *)
(* followed by a digit belongs to the same Number token: no Number token   *)
(* made of digits only ends right before such a '.', and a buffer of the   *)
(* form digits '.' digits yields the one Number token and Eof.             *)
(***************************************************************************)
AllDigits(bs) == \A j \in 1..Len(bs) : IsAsciiDigit(bs[j])

IsDecimal(bs) ==
  \E d \in 2..(Len(bs) - 1) :
    /\ bs[d] = Byte.dot
    /\ AllDigits(SubSeq(bs, 1, d - 1))
    /\ AllDigits(SubSeq(bs, d + 1, Len(bs)))

C3_FractionInSameToken ==
  /\ \A i \in 1..Len(tokens) :
       (tokens[i].tty = "Number" /\ AllDigits(tokens[i].lexeme)) =>
         ~ /\ spans[i].to + 2 <= Len(source)
           /\ source[spans[i].to + 1] = Byte.dot
           /\ IsAsciiDigit(source[spans[i].to + 2])
  /\ (pc = "returned" /\ IsDecimal(source)) =>
       /\ Len(tokens) = 2
       /\ tokens[1].tty = "Number"
       /\ tokens[1].lexeme = source
       /\ tokens[1].literal = LitNumber(ParseF64(source))
       /\ tokens[2].tty = "Eof"

(***************************************************************************)
(* C4: a successful scan's token sequence is non-empty, ends with the Eof  *)
(* token (empty lexeme, no literal) and has no other Eof; a scan that      *)
(* recorded an error has no Eof token.                                     *)
(***************************************************************************)
EndsWithOneEof(ts) ==
  /\ Len(ts) >= 1
  /\ ts[Len(ts)].tty = "Eof"
  /\ ts[Len(ts)].lexeme = <<>>
  /\ ts[Len(ts)].literal = NoLiteral
  /\ \A i \in 1..(Len(ts) - 1) : ts[i].tty # "Eof"

C4_EofTerminated ==
  /\ (pc \in {"returned", "done"} /\ err = NoError) => EndsWithOneEof(tokens)
  /\ result.kind = "Ok" => EndsWithOneEof(result.tokens)
  /\ (pc = "loop" \/ err # NoError) => "Eof" \notin TokenTypes(tokens)

C4_Witness ==
  /\ pc = "done"
  /\ result.kind = "Ok"
  /\ Len(result.tokens) >= 3

(***************************************************************************)
(* C5: dispatching an unrecognized character records UnexpectedCharacter   *)
(* with the current line and column and pushes no token; once that error   *)
(* is recorded no token is appended and the cursor does not move for the   *)
(* rest of the scan.                                                       *)
(***************************************************************************)
Recognised(c) ==
  \/ c \in { Byte.lparen, Byte.rparen, Byte.lbrace, Byte.rbrace, Byte.lbracket,
             Byte.rbracket, Byte.comma, Byte.dot, Byte.minus, Byte.plus,
             Byte.semicolon, Byte.star, Byte.bang, Byte.equal, Byte.less,
             Byte.greater, Byte.slash, Byte.space, Byte.cr, Byte.tab, Byte.nl,
             Byte.quote }
  \/ IsAsciiDigit(c)
  \/ IsAlphabetic(c)

C5_UnexpectedCharacterHalts ==
  /\ [][(Scanning /\ ~Recognised(Dispatched)) =>
          /\ pc' = "loop"
          /\ err' = UnexpectedCharacter(Dispatched, line, col + 1)
          /\ tokens' = tokens
          /\ current' = current + 1]_vars
  /\ [][(err.what = "Unexpected character at" /\ pc # "done") =>
          /\ tokens' = tokens
          /\ current' = current
          /\ err' = err
          /\ pc' \in {"returned", "done"}]_vars

C5_Witness ==
  /\ pc = "done"
  /\ result.kind = "Err"
  /\ result.err.what = "Unexpected character at"
  /\ Len(tokens) >= 1
  /\ current < Len(source)

(***************************************************************************)
(* C6: the lexeme of every token pushed by scan_token is the slice of the  *)
(* source buffer from the token-start offset to the cursor at the moment   *)
(* it is pushed.                                                           *)
(***************************************************************************)
C6_LexemeIsSourceSlice ==
  [][(Scanning /\ tokens' # tokens) =>
       /\ OnePushed
       /\ start' <= current' /\ current' <= Len(source)
       /\ NewToken.lexeme = [j \in 1..(current' - start') |-> source[start' + j]]]_vars

C6_Witness ==
  /\ InScan
  /\ \E i \in 1..Len(tokens) :
       /\ Len(tokens[i].lexeme) >= 2
       /\ spans[i].from >= 1
       /\ tokens[i].lexeme = Slice(source, spans[i].from, spans[i].to)

(***************************************************************************)
(* C7: tokens are appended in strictly increasing source order with        *)
(* disjoint spans: of two consecutive non-Eof tokens the later starts at   *)
(* or after the end of the earlier and after its start; token line         *)
(* numbers never decrease along the sequence.                              *)
(***************************************************************************)
C7_TokensInSourceOrder ==
  \A i \in 1..(Len(tokens) - 1) :
    /\ tokens[i].line <= tokens[i + 1].line
    /\ (tokens[i].tty # "Eof" /\ tokens[i + 1].tty # "Eof") =>
         /\ spans[i].from < spans[i].to
         /\ spans[i + 1].from >= spans[i].to
         /\ spans[i + 1].from > spans[i].from

C7_Witness ==
  /\ InScan
  /\ Len(tokens) >= 3
  /\ tokens[1].tty = "String"
  /\ tokens[1].line = 2
  /\ tokens[2].tty # "Eof"
  /\ tokens[2].line = 3
  /\ spans[2].from > spans[1].to


(***************************************************************************)
(* C8: for '!', '=', '<', '>': when the next character is '=' it is        *)
(* consumed and the one two-character token is pushed; otherwise only the  *)
(* one character is consumed and the one-character token is pushed.        *)
(***************************************************************************)
OperatorBytes == {Byte.bang, Byte.equal, Byte.less, Byte.greater}

OneCharType(c) ==
  CASE c = Byte.bang -> "Bang" [] c = Byte.equal -> "Equal"
    [] c = Byte.less -> "Less" [] c = Byte.greater -> "Greater"

TwoCharType(c) ==
  CASE c = Byte.bang -> "BangEqual" [] c = Byte.equal -> "EqualEqual"
    [] c = Byte.less -> "LessEqual" [] c = Byte.greater -> "GreaterEqual"

C8_LongestOperatorMatch ==
  [][(Scanning /\ Dispatched \in OperatorBytes) =>
       /\ pc' = "loop"
       /\ OnePushed
       /\ NewToken.literal = NoLiteral
       /\ IF current + 2 <= Len(source) /\ source[current + 2] = Byte.equal
          THEN /\ current' = current + 2
               /\ NewToken.tty = TwoCharType(Dispatched)
               /\ NewToken.lexeme = <<Dispatched, Byte.equal>>
          ELSE /\ current' = current + 1
               /\ NewToken.tty = OneCharType(Dispatched)
               /\ NewToken.lexeme = <<Dispatched>>]_vars

C8_Witness ==
  /\ pc = "done"
  /\ source = <<Byte.bang, Byte.equal, Byte.bang>>
  /\ Len(tokens) = 3
  /\ tokens[1].tty = "BangEqual"
  /\ tokens[2].tty = "Bang"

(***************************************************************************)
(* C9: an alphabetic character followed by the maximal run of              *)
(* alphanumerics is pushed as a keyword token without literal exactly when *)
(* the whole text is one of the 17 keyword texts, and otherwise as an      *)
(* Identifier token whose literal is the text.  (The text is a Rust        *)
(* String: the statement is about runs that are well-formed UTF-8.)        *)
(***************************************************************************)
IdentEnd ==
  CHOOSE e \in (current + 1)..Len(source) :
    /\ \A j \in (current + 2)..e : IsAlphanumeric(source[j])
    /\ (e = Len(source) \/ ~IsAlphanumeric(source[e + 1]))

IdentText == [j \in 1..(IdentEnd - current) |-> source[current + j]]

C9_KeywordIffExactText ==
  [][(Scanning /\ IsAlphabetic(Dispatched) /\ Utf8Valid(IdentText)) =>
       /\ Cardinality(KeywordTexts) = 17
       /\ pc' = "loop"
       /\ OnePushed
       /\ current' = IdentEnd
       /\ NewToken.lexeme = IdentText
       /\ IF IdentText \in KeywordTexts
          THEN /\ \E k \in Keywords : k.text = IdentText /\ k.tty = NewToken.tty
               /\ NewToken.literal = NoLiteral
          ELSE /\ NewToken.tty = "Identifier"
               /\ NewToken.literal = LitIdentifier(IdentText)]_vars

C9_Witness ==
  /\ InScan
  /\ \E i \in 1..Len(tokens) :
       /\ tokens[i].tty = "Identifier"
       /\ tokens[i].literal = LitIdentifier(tokens[i].lexeme)
       /\ \E k \in KeywordTexts :
            /\ Len(k) < Len(tokens[i].lexeme)
            /\ SubSeq(tokens[i].lexeme, 1, Len(k)) = k

(***************************************************************************)
(* C10: a string literal with a closing quote yields exactly one String    *)
(* token: the lexeme runs from the opening quote to the first following    *)
(* quote, both included, and the literal is the bytes strictly between     *)
(* them, unchanged: a backslash does not escape, newlines are kept.        *)
(***************************************************************************)
HasClosingQuote == \E q \in (current + 2)..Len(source) : source[q] = Byte.quote

ClosingQuote ==
  CHOOSE q \in (current + 2)..Len(source) :
    /\ source[q] = Byte.quote
    /\ \A j \in (current + 2)..(q - 1) : source[j] # Byte.quote

C10_StringLiteralIsRawContent ==
  [][(Scanning /\ Dispatched = Byte.quote /\ HasClosingQuote) =>
       /\ pc' = "loop"
       /\ err' = NoError
       /\ OnePushed
       /\ current' = ClosingQuote
       /\ NewToken.tty = "String"
       /\ NewToken.lexeme = [j \in 1..(ClosingQuote - current) |-> source[current + j]]
       /\ NewToken.literal =
            LitStr([j \in 1..(ClosingQuote - current - 2) |-> source[current + 1 + j]])]_vars

C10_Witness ==
  /\ pc = "done"
  /\ result.kind = "Ok"
  /\ Len(tokens) = 2
  /\ tokens[1].tty = "String"
  /\ tokens[1].literal = LitStr(<<Byte.nl, Byte.backslash>>)
  /\ tokens[1].lexeme = source

(***************************************************************************)
(* C11: each newline byte inside a terminated string literal adds exactly  *)
(* one to the line counter: the line of every token, Eof included, is 1    *)
(* plus the number of newline bytes before the token's end, those inside   *)
(* string literals counted like the others, so every token after a string  *)
(* is moved down by the newlines inside the string.                        *)
(***************************************************************************)
C11_StringNewlinesCountAsLines ==
  \A i \in 1..Len(tokens) :
    tokens[i].line = 1 + NewlineCount(Slice(source, 0, spans[i].to))

C11_Witness ==
  /\ pc = "done"
  /\ source = <<Byte.quote, Byte.nl, Byte.nl, Byte.quote, Byte.lparen>>
  /\ Len(tokens) = 3
  /\ tokens[1].tty = "String" /\ tokens[1].line = 3
  /\ tokens[2].tty = "LeftParen" /\ tokens[2].line = 3
  /\ tokens[3].tty = "Eof" /\ tokens[3].line = 3

(***************************************************************************)
(* C12: a buffer made only of spaces, tabs, carriage returns, newlines and *)
(* '//' line comments scans without error to exactly one token, Eof.       *)
(***************************************************************************)
RECURSIVE SkipLine(_, _)
SkipLine(bs, p) ==
  IF p > Len(bs) \/ bs[p] = Byte.nl THEN p ELSE SkipLine(bs, p + 1)

RECURSIVE BlankFrom(_, _)
BlankFrom(bs, p) ==
  IF p > Len(bs) THEN TRUE
  ELSE IF bs[p] \in {Byte.space, Byte.tab, Byte.cr, Byte.nl} THEN BlankFrom(bs, p + 1)
  ELSE IF bs[p] = Byte.slash /\ p + 1 <= Len(bs) /\ bs[p + 1] = Byte.slash
       THEN BlankFrom(bs, SkipLine(bs, p + 2))
  ELSE FALSE

BlankOnly(bs) == BlankFrom(bs, 1)

C12_BlankInputYieldsOnlyEof ==
  BlankOnly(source) =>
    /\ pc # "panic"
    /\ err = NoError
    /\ pc = "loop" => tokens = <<>>
    /\ pc \in {"returned", "done"} => (Len(tokens) = 1 /\ tokens[1].tty = "Eof")
    /\ pc = "done" => result = Ok(tokens)

C12_Witness ==
  /\ pc = "done"
  /\ source = <<Byte.slash, Byte.slash, Byte.lparen, Byte.nl, Byte.tab>>
  /\ result.kind = "Ok"
  /\ Len(result.tokens) = 1
  /\ result.tokens[1].tty = "Eof"

(***************************************************************************)
(* C13: the driver scans every line with a fresh Scanner; a scan that      *)
(* records a lexical error (UnexpectedCharacter or UnterminatedString)     *)
(* still returns, the driver prints the error and prompts again; the loop  *)
(* is left only by reading the end of input.                               *)
(***************************************************************************)
C13_DriverContinuesAfterError ==
  [][/\ (pc = "prompt" /\ pc' = "loop") =>
          /\ tokens' = <<>> /\ spans' = <<>> /\ err' = NoError
          /\ start' = 0 /\ current' = 0 /\ line' = 1 /\ col' = -1
     /\ (Scanning /\ err' # NoError) => pc' = "loop"
     /\ (pc = "loop" /\ err # NoError) => pc' = "returned"
     /\ (pc = "returned" /\ err # NoError) => (pc' = "done" /\ result' = Err(err))
     /\ (pc = "done" /\ result.kind = "Err") => (pc' = "printed" /\ output' = "error")
     /\ pc = "printed" => (pc' = "prompt" /\ output' = "> ")
     /\ pc' = "exit" => pc = "prompt"]_vars

(***************************************************************************)
(* C14: a run of digits followed by a '.' that is not followed by a digit  *)
(* is pushed as a Number token whose lexeme is the digit run alone; the    *)
(* '.' is left unconsumed, and when it is dispatched it is pushed as a Dot *)
(* token of its own.                                                       *)
(***************************************************************************)
DigitRunEnd ==
  CHOOSE e \in (current + 1)..Len(source) :
    /\ \A j \in (current + 2)..e : IsAsciiDigit(source[j])
    /\ (e = Len(source) \/ ~IsAsciiDigit(source[e + 1]))

TrailingDot ==
  /\ DigitRunEnd + 1 <= Len(source)
  /\ source[DigitRunEnd + 1] = Byte.dot
  /\ ~(DigitRunEnd + 2 <= Len(source) /\ IsAsciiDigit(source[DigitRunEnd + 2]))

C14_TrailingDotLeftForDotToken ==
  [][/\ (Scanning /\ IsAsciiDigit(Dispatched) /\ TrailingDot) =>
          /\ pc' = "loop"
          /\ err' = NoError
          /\ OnePushed
          /\ NewToken.tty = "Number"
          /\ NewToken.lexeme = [j \in 1..(DigitRunEnd - current) |-> source[current + j]]
          /\ current' = DigitRunEnd
          /\ source[current' + 1] = Byte.dot
     /\ (Scanning /\ Dispatched = Byte.dot) =>
          /\ pc' = "loop"
          /\ OnePushed
          /\ NewToken.tty = "Dot"
          /\ NewToken.lexeme = <<Byte.dot>>
          /\ current' = current + 1]_vars

C14_Witness ==
  /\ pc = "done"
  /\ source = <<Byte.d1, Byte.d9, Byte.dot, Byte.o>>
  /\ Len(tokens) = 4
  /\ tokens[1].tty = "Number" /\ tokens[1].lexeme = <<Byte.d1, Byte.d9>>
  /\ tokens[2].tty = "Dot" /\ tokens[2].lexeme = <<Byte.dot>>
  /\ tokens[3].tty = "Identifier"

(***************************************************************************)
(* C15: '/' followed by '/' pushes no token and moves the cursor to the    *)
(* next newline byte or the end of the buffer, not past it; that newline   *)
(* is then dispatched like any other (line counter plus one, no token); a  *)
(* '/' not followed by '/' pushes Slash and consumes that one byte.        *)
(***************************************************************************)
C15_LineCommentStopsBeforeNewline ==
  [][/\ (Scanning /\ Dispatched = Byte.slash) =>
          /\ pc' = "loop"
          /\ err' = NoError
          /\ line' = line
          /\ IF current + 2 <= Len(source) /\ source[current + 2] = Byte.slash
             THEN /\ tokens' = tokens
                  /\ current' = SkipLine(source, current + 3) - 1
                  /\ current' = Len(source) \/ source[current' + 1] = Byte.nl
             ELSE /\ OnePushed
                  /\ NewToken.tty = "Slash"
                  /\ NewToken.lexeme = <<Byte.slash>>
                  /\ current' = current + 1
     /\ (Scanning /\ Dispatched = Byte.nl) =>
          /\ pc' = "loop"
          /\ tokens' = tokens
          /\ line' = line + 1
          /\ current' = current + 1]_vars

C15_Witness ==
  /\ pc = "done"
  /\ source = <<Byte.slash, Byte.slash, Byte.lparen, Byte.nl, Byte.lparen>>
  /\ Len(tokens) = 2
  /\ tokens[1].tty = "LeftParen"
  /\ tokens[1].line = 2
  /\ spans[1].from = 4

(***************************************************************************)
(* C16: a fresh scanner starts at line 1 with a column from which the      *)
(* first consumed character gets column 0; a newline dispatched outside a  *)
(* string adds exactly one to the line counter, sets the column counter to *)
(* 0 and pushes no token; space, tab and carriage return change neither    *)
(* the line counter nor the token list.                                    *)
(***************************************************************************)
C16_PositionTracking ==
  [][/\ (pc = "prompt" /\ pc' = "loop") => (line' = 1 /\ current' = 0)
     /\ (Scanning /\ current = 0) => line = 1
     /\ (Scanning /\ current = 0 /\ current' = 1 /\ Dispatched # Byte.nl) =>
          /\ col' = 0
          /\ tokens' # tokens => NewToken.col = 0
     /\ (Scanning /\ Dispatched = Byte.nl) =>
          /\ line' = line + 1
          /\ col' = 0
          /\ tokens' = tokens
          /\ err' = NoError
     /\ (Scanning /\ Dispatched \in {Byte.space, Byte.tab, Byte.cr}) =>
          /\ line' = line
          /\ tokens' = tokens
          /\ err' = NoError
          /\ current' = current + 1]_vars

C16_Witness ==
  /\ pc = "done"
  /\ source = <<Byte.lparen, Byte.tab, Byte.nl, Byte.cr, Byte.lparen>>
  /\ Len(tokens) = 3
  /\ tokens[1].line = 1 /\ tokens[1].col = 0
  /\ tokens[2].line = 2
  /\ tokens[3].tty = "Eof"

(***************************************************************************)
(* C17: every scan terminates.  Each iteration of the main loop starts     *)
(* with a byte left to consume and strictly increases the cursor; the      *)
(* inner loops stop at the end of the buffer, so while the scan goes on    *)
(* the cursor never exceeds the buffer length.  The distance from the      *)
(* cursor to the end of the buffer is thus a natural number that every     *)
(* iteration decreases: the loop is left, by completion or at the first    *)
(* error, within as many iterations as the buffer has bytes, and an error  *)
(* ends it at once.                                                        *)
(***************************************************************************)
C17_ScanTerminates ==
  [][/\ pc = "loop" => (0 <= current /\ current <= Len(source))
     /\ Scanning =>
          /\ err = NoError
          /\ current < Len(source)
          /\ current' > current
          /\ Len(source') = Len(source)
          /\ pc' = "loop" => current' <= Len(source)
     /\ (pc = "loop" /\ (err # NoError \/ current = Len(source))) => pc' = "returned"]_vars

C17_Witness ==
  /\ pc = "returned"
  /\ Len(source) >= 5
  /\ current = Len(source)
  /\ err = NoError
  /\ \E i \in 1..Len(tokens) : tokens[i].tty = "String" /\ Len(tokens[i].lexeme) >= 3

(***************************************************************************)
(* C18: the cursor invariant.  In every state of a scan,                   *)
(* 0 <= start <= current <= length of the buffer, and the bytes taken for  *)
(* every token lie inside the buffer.                                      *)
(***************************************************************************)
C18_CursorInBounds ==
  /\ 0 <= start
  /\ start <= current
  /\ current <= Len(source)
  /\ \A i \in 1..Len(tokens) : SliceOk(source, spans[i].from, spans[i].to)

\* the first byte (counted from 1) of the line that holds byte p
LineStart(bs, p) ==
  LET before == {q \in 1..(p - 1) : bs[q] = Byte.nl}
  IN IF before = {} THEN 1 ELSE 1 + CHOOSE q \in before : \A r \in before : r <= q

\* the zero-based offset of byte p within its line
ColumnOf(bs, p) == p - LineStart(bs, p)

(***************************************************************************)
(* C19: column consistency.  The column of every token but Eof, and of     *)
(* every error, is non-negative and is the zero-based offset, within its   *)
(* line, of the last byte consumed for it, on whichever line it stands.    *)
(***************************************************************************)
C19_ColumnIsOffsetInLine ==
  InScan =>
    /\ \A i \in 1..Len(tokens) :
         tokens[i].tty # "Eof" =>
           /\ tokens[i].col >= 0
           /\ tokens[i].col = ColumnOf(source, spans[i].to)
    /\ err # NoError =>
         /\ err.col >= 0
         /\ err.col = ColumnOf(source, current)

====
